---- MODULE Spec2Model ----
(***************************************************************************)
(* A model of hook_demo_editor.py: the VideoCombiner run                   *)
(*   check_dependencies -> find_file x3 -> combine_videos                  *)
(*     -> combine_videos_fallback -> combine_videos_no_text -> sys.exit    *)
(* together with the pure helpers find_file, get_font_path and             *)
(* wrap_text_for_margins (textwrap.fill as CPython's textwrap computes it).*)
(*                                                                         *)
(* Text and file names are sequences of one-character strings; a font path *)
(* is a one-element sequence holding the path, so that None, '' and a path *)
(* are values of one kind.                                                 *)
(***************************************************************************)
EXTENDS Integers, Sequences, FiniteSets, TLC

VARIABLES
    ffmpeg_installed,     \* environment: shutil.which('ffmpeg') finds the tool
    fs,                   \* environment: folder -> [exists, entries (its listing)]
    bundled_font_exists,  \* environment: assets/TikTokDisplay-Medium.ttf exists
    platform_system,      \* environment: platform.system()
    existing_fonts,       \* environment: the system font paths that exist
    pc,                   \* position of the run
    hook_video,           \* run(): result of find_file(hooks_folder, ...)
    demo_video,           \* run(): result of find_file(demo_folder, ...)
    audio_file,           \* run(): result of find_file(audio_folder, ...)
    prompted,             \* input() was called
    overlay_text,         \* combine_videos: the stripped input line
    wrapped_text,         \* combine_videos: the wrapped overlay text
    font_param,           \* combine_videos: fontfile of the first drawtext filter
    text_file,            \* disk: overlay_text.txt, [exists, content]
    text_file_writes,     \* number of times overlay_text.txt was opened for writing
    probes,               \* number of ffprobe runs (get_video_duration)
    invocations,          \* the ffmpeg invocations of the run, in order
    raised,               \* the places where an exception was raised in the run
    output_written,       \* disk: the output video was written by ffmpeg
    returned,             \* run() has returned
    success,              \* the value run() returned
    exit_code             \* the process exit status

vars == <<ffmpeg_installed, fs, bundled_font_exists, platform_system,
          existing_fonts, pc, hook_video, demo_video, audio_file, prompted,
          overlay_text, wrapped_text, font_param, text_file, text_file_writes,
          probes, invocations, raised, output_written, returned, success,
          exit_code>>

env_vars == <<ffmpeg_installed, fs, bundled_font_exists, platform_system,
              existing_fonts>>

(***************************************************************************)
(* Values                                                                  *)
(***************************************************************************)
None == <<"None">>      \* Python's None
Unset == <<"Unset">>    \* a local not assigned yet
NoFile == [exists |-> FALSE, content |-> <<>>]
\* a file that open() created and nothing was written to
Written_empty(text) == [exists |-> TRUE, content |-> <<>>]

Written(text) == [exists |-> TRUE, content |-> text]

(***************************************************************************)
(* Characters.  textwrap's regular expressions distinguish whitespace,     *)
(* letters, digits, word punctuation and the hyphen.                       *)
(***************************************************************************)
_whitespace == {"\t", "\n", "\f", "\r", " "}
Letters == {"a", "b"}
Digits == {"1"}
IsWhitespace(c) == c \in _whitespace
IsLetter(c) == c \in Letters                       \* [^\d\W]
IsWordChar(c) == c \in Letters \cup Digits         \* \w
IsWordPunct(c) == IsWordChar(c) \/ c \in {"!", "\"", "'", "&", ".", ",", "?"}

(***************************************************************************)
(* str.strip(): drop leading and trailing whitespace.                      *)
(***************************************************************************)
RECURSIVE LStrip(_)
LStrip(t) ==
    IF t # <<>> /\ IsWhitespace(Head(t)) THEN LStrip(Tail(t)) ELSE t

RECURSIVE RStrip(_)
RStrip(t) ==
    IF t # <<>> /\ IsWhitespace(t[Len(t)])
    THEN RStrip(SubSeq(t, 1, Len(t) - 1))
    ELSE t

Strip(t) == RStrip(LStrip(t))

(***************************************************************************)
(* textwrap.TextWrapper._munge_whitespace with expand_tabs = True and      *)
(* replace_whitespace = True: str.expandtabs(8), then every whitespace     *)
(* character becomes one space.                                            *)
(***************************************************************************)
tabsize == 8

Spaces(n) == [i \in 1..n |-> " "]

RECURSIVE ExpandTabsFrom(_, _, _)
ExpandTabsFrom(t, i, col) ==
    IF i > Len(t) THEN <<>>
    ELSE IF t[i] = "\t"
         THEN Spaces(tabsize - (col % tabsize))
                \o ExpandTabsFrom(t, i + 1, col + (tabsize - (col % tabsize)))
    ELSE IF t[i] \in {"\n", "\r"}
         THEN <<t[i]>> \o ExpandTabsFrom(t, i + 1, 0)
    ELSE <<t[i]>> \o ExpandTabsFrom(t, i + 1, col + 1)

ExpandTabs(t) == ExpandTabsFrom(t, 1, 0)

ReplaceWhitespace(t) == [i \in 1..Len(t) |-> IF IsWhitespace(t[i]) THEN " " ELSE t[i]]

MungeWhitespace(t) == ReplaceWhitespace(ExpandTabs(t))

(***************************************************************************)
(* textwrap.TextWrapper._split with break_on_hyphens = True: the chunks    *)
(* wordsep_re.split produces.  The matches of wordsep_re tile the text, so *)
(* a chunk is one match:                                                   *)
(*   whitespace+                                                           *)
(* | (?<=wp) -{2,} (?=\w)                                                  *)
(* | nws+? ( -((?<=lt{2}-)|(?<=lt-lt-)) (?=lt -? lt)                       *)
(*         | (?=ws|\Z)                                                     *)
(*         | (?<=wp) (?=-{2,}\w) )                                         *)
(***************************************************************************)
At(t, i) == IF i >= 1 /\ i <= Len(t) THEN t[i] ELSE "\\Z"

RECURSIVE WhitespaceRunEnd(_, _)
WhitespaceRunEnd(t, i) ==
    IF IsWhitespace(At(t, i)) THEN WhitespaceRunEnd(t, i + 1) ELSE i

RECURSIVE HyphenRunEnd(_, _)
HyphenRunEnd(t, i) ==
    IF At(t, i) = "-" THEN HyphenRunEnd(t, i + 1) ELSE i

\* (?<=wp) at i, then -{2,} (?=\w): a run of two or more hyphens before a word char
EmDashAt(t, i) ==
    /\ IsWordPunct(At(t, i - 1))
    /\ HyphenRunEnd(t, i) >= i + 2
    /\ IsWordChar(At(t, HyphenRunEnd(t, i)))

\* the hyphen at q ends a chunk: - ((?<=lt{2}-)|(?<=lt-lt-)) (?=lt -? lt)
HyphenBreakAt(t, q) ==
    /\ At(t, q) = "-"
    /\ \/ IsLetter(At(t, q - 2)) /\ IsLetter(At(t, q - 1))
       \/ IsLetter(At(t, q - 3)) /\ At(t, q - 2) = "-" /\ IsLetter(At(t, q - 1))
    /\ IsLetter(At(t, q + 1))
    /\ \/ At(t, q + 2) = "-" /\ IsLetter(At(t, q + 3))
       \/ IsLetter(At(t, q + 2))

\* nws+? consumed t[p..q-1]; the first q at which an ending matches
RECURSIVE WordEnd(_, _)
WordEnd(t, q) ==
    IF HyphenBreakAt(t, q) THEN q + 1
    ELSE IF q > Len(t) \/ IsWhitespace(At(t, q)) THEN q
    ELSE IF EmDashAt(t, q) THEN q
    ELSE WordEnd(t, q + 1)

\* the index after the match of wordsep_re that starts at p
MatchEnd(t, p) ==
    IF IsWhitespace(t[p]) THEN WhitespaceRunEnd(t, p)
    ELSE IF EmDashAt(t, p) THEN HyphenRunEnd(t, p)
    ELSE WordEnd(t, p + 1)

\* (A value that is used more than once is bound by a singleton set, here and
\* below: under ENABLED, TLC evaluates a parameter or a LET definition again
\* at every use.)
RECURSIVE SplitFrom(_, _)
SplitFrom(t, p) ==
    IF p > Len(t) THEN <<>>
    ELSE CHOOSE chunks \in
            {<<SubSeq(t, p, end - 1)>> \o SplitFrom(t, end) : end \in {MatchEnd(t, p)}} :
            TRUE

Split(t) == SplitFrom(t, 1)

(***************************************************************************)
(* textwrap.TextWrapper._wrap_chunks with drop_whitespace = True,          *)
(* break_long_words = False, no indent and max_lines = None.               *)
(***************************************************************************)
RECURSIVE Concat(_)
Concat(chunks) ==
    IF chunks = <<>> THEN <<>> ELSE Head(chunks) \o Concat(Tail(chunks))

\* chunk.strip() == ''
IsBlank(chunk) == \A i \in 1..Len(chunk) : IsWhitespace(chunk[i])

\* a slip that fills a line only to less than the width
RECURSIVE TakeFitting_below_width(_, _, _, _)
TakeFitting_below_width(chunks, j, cur_len, width) ==
    IF j <= Len(chunks) /\ cur_len + Len(chunks[j]) < width
    THEN TakeFitting_below_width(chunks, j + 1, cur_len + Len(chunks[j]), width)
    ELSE j

\* the inner while loop: the index after the last chunk that fits on the line
RECURSIVE TakeFitting(_, _, _, _)
TakeFitting(chunks, j, cur_len, width) ==
    IF j <= Len(chunks) /\ cur_len + Len(chunks[j]) <= width
    THEN TakeFitting(chunks, j + 1, cur_len + Len(chunks[j]), width)
    ELSE j

\* _handle_long_word with break_long_words = False: a chunk longer than the
\* width is put on a line of its own, whole
HandleLongWord(chunks, first, j, width) ==
    IF j <= Len(chunks) /\ Len(chunks[j]) > width /\ j = first THEN j + 1 ELSE j

\* one line: the chunks first..stop-1, less a blank chunk at the end
CurLine(chunks, first, stop) ==
    SubSeq(chunks, first,
           IF stop > first /\ IsBlank(chunks[stop - 1]) THEN stop - 2 ELSE stop - 1)

\* the index after the last chunk of the line that starts at chunk first
LineStop(chunks, first, width) ==
    HandleLongWord(chunks, first, TakeFitting(chunks, first, 0, width), width)

RECURSIVE WrapChunksFrom(_, _, _, _)
WrapChunksFrom(chunks, i, lines, width) ==
    IF i > Len(chunks) THEN lines
    ELSE CHOOSE result \in UNION
            {{WrapChunksFrom(chunks, stop,
                             IF CurLine(chunks, first, stop) # <<>>
                             THEN Append(lines, Concat(CurLine(chunks, first, stop)))
                             ELSE lines,
                             width) : stop \in {LineStop(chunks, first, width)}} :
                first \in {IF IsBlank(chunks[i]) /\ lines # <<>> THEN i + 1 ELSE i}} :
            TRUE

WrapChunks(chunks, width) == WrapChunksFrom(chunks, 1, <<>>, width)

\* a slip that leaves break_long_words at its default, True: a chunk longer
\* than the width is cut
RECURSIVE CutLong(_, _)
CutLong(chunks, width) ==
    IF chunks = <<>> THEN <<>>
    ELSE IF Len(Head(chunks)) > width
         THEN <<SubSeq(Head(chunks), 1, width)>>
                \o CutLong(<<SubSeq(Head(chunks), width + 1, Len(Head(chunks)))>>
                              \o Tail(chunks), width)
    ELSE <<Head(chunks)>> \o CutLong(Tail(chunks), width)

Wrap_break_long_words(text, width) ==
    CHOOSE lines \in UNION
        {{WrapChunks(chunks, width) : chunks \in {CutLong(Split(munged), width)}} :
            munged \in {MungeWhitespace(text)}} :
        TRUE

\* TextWrapper.wrap
Wrap(text, width) ==
    CHOOSE lines \in UNION
        {{WrapChunks(chunks, width) : chunks \in {Split(munged)}} :
            munged \in {MungeWhitespace(text)}} :
        TRUE

\* "\n".join(lines)
RECURSIVE JoinLines(_)
JoinLines(lines) ==
    IF lines = <<>> THEN <<>>
    ELSE IF Len(lines) = 1 THEN lines[1]
    ELSE lines[1] \o <<"\n">> \o JoinLines(Tail(lines))

\* textwrap.fill(text, width, break_long_words=False)
Fill(text, width) ==
    CHOOSE filled \in {JoinLines(lines) : lines \in {Wrap(text, width)}} : TRUE

chars_per_line == 23

wrap_text_for_margins(text) == Fill(text, chars_per_line)

(***************************************************************************)
(* VideoCombiner.__init__: folders, the bundled font, supported file types *)
(***************************************************************************)
Folders == {"hooks", "demo", "audio"}

font_path == <<"assets/TikTokDisplay-Medium.ttf">>

ext_mp4 == <<".", "m", "p", "4">>
ext_mov == <<".", "m", "o", "v">>
ext_avi == <<".", "a", "v", "i">>
ext_mkv == <<".", "m", "k", "v">>
ext_webm == <<".", "w", "e", "b", "m">>
ext_mp3 == <<".", "m", "p", "3">>
ext_wav == <<".", "w", "a", "v">>
ext_aac == <<".", "a", "a", "c">>
ext_m4a == <<".", "m", "4", "a">>
ext_flac == <<".", "f", "l", "a", "c">>

video_extensions == <<ext_mp4, ext_mov, ext_avi, ext_mkv, ext_webm>>
audio_extensions == <<ext_mp3, ext_wav, ext_aac, ext_m4a, ext_flac>>

(***************************************************************************)
(* find_file.  folder.glob("*" + ext) yields, in the listing's order, the  *)
(* entries whose name ends with ext (matching is case-sensitive, and "*"   *)
(* also matches the empty stem and a leading dot).                         *)
(***************************************************************************)
EndsWith(name, ext) ==
    /\ Len(name) >= Len(ext)
    /\ SubSeq(name, Len(name) - Len(ext) + 1, Len(name)) = ext

Glob(listing, ext) == SelectSeq(listing, LAMBDA name : EndsWith(name, ext))

RECURSIVE FindFrom(_, _, _)
FindFrom(listing, extensions, k) ==
    IF k > Len(extensions) THEN None
    ELSE IF Glob(listing, extensions[k]) # <<>>
         THEN Glob(listing, extensions[k])[1]
    ELSE FindFrom(listing, extensions, k + 1)

\* a slip that takes the first entry with any recognized extension
find_file_first_entry(folder, extensions) ==
    IF ~folder.exists THEN None
    ELSE LET hits == SelectSeq(folder.entries, LAMBDA name :
                        \E k \in 1..Len(extensions) : EndsWith(name, extensions[k]))
         IN IF hits # <<>> THEN hits[1] ELSE None

find_file(folder, extensions) ==
    IF ~folder.exists THEN None ELSE FindFrom(folder.entries, extensions, 1)

(***************************************************************************)
(* get_font_path and the font choice of combine_videos                     *)
(***************************************************************************)
Platforms == {"Darwin", "Windows", "Linux"}

font_paths(system) ==
    IF system = "Darwin"
    THEN << <<"/System/Library/Fonts/Helvetica.ttc">>,
           <<"/System/Library/Fonts/Avenir.ttc">>,
           <<"/Library/Fonts/Arial.ttf">> >>
    ELSE IF system = "Windows"
    THEN << <<"C:/Windows/Fonts/arial.ttf">>,
           <<"C:/Windows/Fonts/Arial.ttf">>,
           <<"C:/Windows/Fonts/calibri.ttf">> >>
    ELSE << <<"/usr/share/fonts/truetype/liberation/LiberationSans-Regular.ttf">>,
           <<"/usr/share/fonts/truetype/dejavu/DejaVuSans.ttf">>,
           <<"/usr/share/fonts/truetype/ubuntu/Ubuntu-R.ttf">> >>

AllSystemFonts ==
    UNION {{font_paths(s)[i] : i \in 1..Len(font_paths(s))} : s \in Platforms}

RECURSIVE FirstExisting(_, _, _)
FirstExisting(paths, existing, i) ==
    IF i > Len(paths) THEN None
    ELSE IF paths[i] \in existing THEN paths[i]
    ELSE FirstExisting(paths, existing, i + 1)

get_font_path(system, existing) == FirstExisting(font_paths(system), existing, 1)

\* a slip that prefers a system font to the bundled one
SelectFont_system_first(bundled, system, existing) ==
    IF get_font_path(system, existing) # None THEN get_font_path(system, existing)
    ELSE IF bundled THEN font_path
    ELSE <<>>

\* combine_videos: the fontfile of the drawtext filter, <<>> for none
SelectFont(bundled, system, existing) ==
    IF bundled THEN font_path
    ELSE IF get_font_path(system, existing) # None
         THEN get_font_path(system, existing)
    ELSE <<>>

(***************************************************************************)
(* Bounds and the inputs drawn from them                                   *)
(***************************************************************************)
MaxTokens == 4     \* an input line is at most this many tokens
MaxEntries == 3    \* a folder listing has at most this many entries
MaxFonts == 2      \* at most this many system fonts exist

Tokens ==
    { <<"a","a","a","a","a","a","a","a","a","a","a">>,   \* a word of 11 letters
      <<"a","a","a","a","-","b","b","b","b">>,           \* a hyphenated word
      <<"a">>, <<" ">>, <<"\t">>, <<"-","-">> }

RECURSIVE TokenTexts(_)
TokenTexts(n) ==
    IF n = 0 THEN {<<>>}
    ELSE TokenTexts(n - 1) \cup {t \o k : t \in TokenTexts(n - 1), k \in Tokens}

\* the lines the operator may type, for the study of the text layout
Texts == TokenTexts(MaxTokens)

\* the lines the operator may type in a whole run: nothing, blanks, a short
\* text, a text with a tab, and a text over the budget with hyphenated words
RunInputs ==
    { <<>>, <<" ">>, <<"a", " ", "b">>, <<"a", "\t", "b">>,
      <<"a","a","a","a","-","b","b","b","b","a","a","a","a","-","b","b","b","b",
        "a","a","a","a","-","b","b","b","b", " ", "a">> }

FileNames ==
    { <<"a">> \o ext_mp4, <<"b">> \o ext_mp4, <<"a">> \o ext_mov,
      <<"a">> \o ext_webm, <<"a">> \o ext_mp3, <<"a">> \o ext_wav,
      <<"a", ".", "t", "x", "t">>, <<"m", "p", "4">>,
      <<"a", ".", "M", "P", "4">>, ext_flac }

IsInjective(f) == \A i, j \in DOMAIN f : f[i] = f[j] => i = j

\* the listings of a folder: distinct names, in the file system's order
Listings ==
    {l \in UNION {[1..n -> FileNames] : n \in 0..MaxEntries} : IsInjective(l)}

Missing == [exists |-> FALSE, entries |-> <<>>]
Folder(listing) == [exists |-> TRUE, entries |-> listing]

\* the folders of a whole run: missing, without a recognized file, or with
\* several recognized files
RunFolders ==
    { Missing,
      Folder(<< <<"a", ".", "t", "x", "t">> >>),
      Folder(<< <<"a">> \o ext_wav, <<"a">> \o ext_mov, <<"b">> \o ext_mp4,
                <<"a">> \o ext_mp3 >>) }

FontSets == {S \in SUBSET AllSystemFonts : Cardinality(S) <= MaxFonts}

(***************************************************************************)
(* What an ffmpeg invocation can do: raise instead of returning (Popen or  *)
(* subprocess.run fails, or reading the diagnostics fails), or return an   *)
(* exit code with diagnostics on stderr.  Of stderr only the markers the   *)
(* code looks for matter.  returncode -1 stands for no exit code, 1 for    *)
(* any non-zero exit code.                                                 *)
(***************************************************************************)
Markers == {"No such filter", "fontfile", "textfile"}

Raises == [raised |-> TRUE, returncode |-> -1, stderr |-> {}]
Returns(rc, err) == [raised |-> FALSE, returncode |-> rc, stderr |-> err]

\* the first attempt reads stderr on a non-zero exit code
FirstOutcomes ==
    {Raises, Returns(0, {})} \cup {Returns(1, err) : err \in SUBSET Markers}

\* the fallbacks capture stderr and never read it
RunOutcomes == {Raises, Returns(0, {}), Returns(1, {})}

\* open(text_file, 'w') and f.write: the file is written; open raises and
\* no file is created; or the file is created and the write raises
WriteOutcomes == {"written", "open raised", "write raised"}

\* one ffmpeg command: its step, whether its filter graph holds a drawtext
\* filter (which reads textfile='overlay_text.txt'), the fontfile of that
\* filter, the text file as it stands when the command is started, and the
\* outcome
Invocation(step, drawtext, fontfile, file, outcome) ==
    [step |-> step, drawtext |-> drawtext, fontfile |-> fontfile,
     text_file |-> file, outcome |-> outcome]

(***************************************************************************)
(* The state after construction, in every environment of a whole run       *)
(***************************************************************************)
Start ==
    /\ pc = "check_dependencies"
    /\ hook_video = Unset
    /\ demo_video = Unset
    /\ audio_file = Unset
    /\ prompted = FALSE
    /\ overlay_text = Unset
    /\ wrapped_text = Unset
    /\ font_param = Unset
    /\ text_file = NoFile
    /\ text_file_writes = 0
    /\ probes = 0
    /\ invocations = <<>>
    /\ raised = {}
    /\ output_written = FALSE
    /\ returned = FALSE
    /\ success = FALSE
    /\ exit_code = -1

Init ==
    /\ ffmpeg_installed \in BOOLEAN
    /\ fs \in [Folders -> RunFolders]
    /\ bundled_font_exists \in BOOLEAN
    /\ platform_system \in Platforms
    /\ existing_fonts \in FontSets
    /\ Start

(***************************************************************************)
(* The decisions of the code                                               *)
(***************************************************************************)
\* run(): "if not hook_video: ... return False", and so on for each folder
NextStep_ignore_missing(found, next) == next

NextStep(found, next) == IF found = None THEN "run_return" ELSE next

\* combine_videos, on a non-zero exit code: 'No such filter' is looked for
\* first; then 'fontfile' or 'textfile' leads to the fallback, if there is
\* overlay text
RetryWithoutFont_fontfile_only(text, stderr) ==
    /\ "No such filter" \notin stderr
    /\ "fontfile" \in stderr
    /\ text # <<>>

RetryWithoutFont_any_text(text, stderr) ==
    /\ "No such filter" \notin stderr
    /\ "fontfile" \in stderr \/ "textfile" \in stderr

RetryWithoutFont(text, stderr) ==
    /\ "No such filter" \notin stderr
    /\ "fontfile" \in stderr \/ "textfile" \in stderr
    /\ text # <<>>

\* main: sys.exit(0 if success else 1)
ExitStatus_zero(flag) == 0

ExitStatus(flag) == IF flag THEN 0 ELSE 1

(***************************************************************************)
(* run(), step by step                                                     *)
(***************************************************************************)
\* "return value" from run(): back in main
Return(value) ==
    /\ pc' = "run_return"
    /\ returned' = TRUE
    /\ success' = value

CheckDependencies ==
    /\ pc = "check_dependencies"
    /\ IF ffmpeg_installed
       THEN pc' = "find_hook" /\ UNCHANGED <<returned, success>>
       ELSE Return(FALSE)
    /\ UNCHANGED <<env_vars, hook_video, demo_video, audio_file, prompted,
                   overlay_text, wrapped_text, font_param, text_file,
                   text_file_writes, probes, invocations, raised,
                   output_written, exit_code>>

FindHook ==
    /\ pc = "find_hook"
    /\ LET found == find_file(fs["hooks"], video_extensions) IN
        /\ hook_video' = found
        /\ pc' = NextStep(found, "find_demo")
        /\ returned' = (NextStep(found, "find_demo") = "run_return")
    /\ UNCHANGED <<env_vars, demo_video, audio_file, prompted, overlay_text,
                   wrapped_text, font_param, text_file, text_file_writes,
                   probes, invocations, raised, output_written, success,
                   exit_code>>

FindDemo ==
    /\ pc = "find_demo"
    /\ LET found == find_file(fs["demo"], video_extensions) IN
        /\ demo_video' = found
        /\ pc' = NextStep(found, "find_audio")
        /\ returned' = (NextStep(found, "find_audio") = "run_return")
    /\ UNCHANGED <<env_vars, hook_video, audio_file, prompted, overlay_text,
                   wrapped_text, font_param, text_file, text_file_writes,
                   probes, invocations, raised, output_written, success,
                   exit_code>>

FindAudio ==
    /\ pc = "find_audio"
    /\ LET found == find_file(fs["audio"], audio_extensions) IN
        /\ audio_file' = found
        /\ pc' = NextStep(found, "combine_videos")
        /\ returned' = (NextStep(found, "combine_videos") = "run_return")
    /\ UNCHANGED <<env_vars, hook_video, demo_video, prompted, overlay_text,
                   wrapped_text, font_param, text_file, text_file_writes,
                   probes, invocations, raised, output_written, success,
                   exit_code>>

(***************************************************************************)
(* combine_videos up to the ffmpeg command: the prompt, the two duration   *)
(* probes, and with overlay text the wrapping, the text file and the font. *)
(* The text file is written outside the try block: an exception there      *)
(* leaves combine_videos and run(), and the interpreter exits with 1.      *)
(***************************************************************************)
CombineStartWith(Lines) ==
    /\ pc = "combine_videos"
    /\ \E line \in Lines, w \in WriteOutcomes :
        LET text == Strip(line)
            wrapped == wrap_text_for_margins(text)
        IN
        /\ prompted' = TRUE
        /\ overlay_text' = text
        /\ probes' = probes + 2
        /\ IF text = <<>>
           THEN /\ pc' = "first_attempt"
                /\ UNCHANGED <<wrapped_text, font_param, text_file,
                               text_file_writes, raised, exit_code>>
           ELSE /\ wrapped_text' = wrapped
                /\ text_file_writes' = text_file_writes + 1
                /\ IF w = "written"
                   THEN /\ text_file' = Written(wrapped)
                        /\ font_param' = SelectFont(bundled_font_exists,
                                                    platform_system,
                                                    existing_fonts)
                        /\ pc' = "first_attempt"
                        /\ UNCHANGED <<raised, exit_code>>
                   ELSE /\ text_file' = IF w = "write raised"
                                        THEN Written(<<>>) ELSE text_file
                        /\ raised' = raised \cup {"write_first"}
                        /\ pc' = "exited"
                        /\ exit_code' = 1
                        /\ UNCHANGED font_param
    /\ UNCHANGED <<env_vars, hook_video, demo_video, audio_file, invocations,
                   output_written, returned, success>>

CombineStart == CombineStartWith(RunInputs)

(***************************************************************************)
(* combine_videos from the try block on: the first ffmpeg invocation, the  *)
(* removal of the text file, and the decision on the exit code.            *)
(***************************************************************************)
FirstAttempt ==
    /\ pc = "first_attempt"
    /\ \E o \in FirstOutcomes :
        /\ invocations' = Append(invocations,
               Invocation("TextOverlayAttempt", overlay_text # <<>>,
                          IF overlay_text # <<>> THEN font_param ELSE <<>>,
                          text_file, o))
        /\ text_file' = IF overlay_text # <<>> THEN NoFile ELSE text_file
        /\ IF o.raised
           THEN /\ raised' = raised \cup {"first_attempt"}
                /\ Return(FALSE)
                /\ UNCHANGED <<probes, output_written>>
           ELSE IF o.returncode = 0
           THEN /\ probes' = probes + 1
                /\ output_written' = TRUE
                /\ Return(TRUE)
                /\ UNCHANGED raised
           ELSE IF RetryWithoutFont(overlay_text, o.stderr)
           THEN /\ pc' = "combine_videos_fallback"
                /\ UNCHANGED <<probes, output_written, raised, returned, success>>
           ELSE /\ Return(FALSE)
                /\ UNCHANGED <<probes, output_written, raised>>
    /\ UNCHANGED <<env_vars, hook_video, demo_video, audio_file, prompted,
                   overlay_text, wrapped_text, font_param, text_file_writes,
                   exit_code>>

(***************************************************************************)
(* combine_videos_fallback up to the ffmpeg command: the text file is      *)
(* written again.  The call is made inside combine_videos' try block, so   *)
(* an exception here is caught by its handler, which removes the file.     *)
(***************************************************************************)
FallbackStart ==
    /\ pc = "combine_videos_fallback"
    /\ \E w \in WriteOutcomes :
        LET wrapped == wrap_text_for_margins(overlay_text) IN
        /\ wrapped_text' = wrapped
        /\ text_file_writes' = text_file_writes + 1
        /\ IF w = "written"
           THEN /\ text_file' = Written(wrapped)
                /\ pc' = "fallback_run"
                /\ UNCHANGED <<raised, returned, success>>
           ELSE /\ text_file' = NoFile
                /\ raised' = raised \cup {"write_fallback"}
                /\ Return(FALSE)
    /\ UNCHANGED <<env_vars, hook_video, demo_video, audio_file, prompted,
                   overlay_text, font_param, probes, invocations,
                   output_written, exit_code>>

\* combine_videos_fallback, its try block: the retry without fontfile
FallbackRun ==
    /\ pc = "fallback_run"
    /\ \E o \in RunOutcomes :
        /\ invocations' = Append(invocations,
               Invocation("FontFallback", TRUE, <<>>, text_file, o))
        /\ text_file' = NoFile
        /\ IF o.raised
           THEN /\ raised' = raised \cup {"fallback_run"}
                /\ Return(FALSE)
                /\ UNCHANGED <<probes, output_written>>
           ELSE IF o.returncode = 0
           THEN /\ probes' = probes + 1
                /\ output_written' = TRUE
                /\ Return(TRUE)
                /\ UNCHANGED raised
           ELSE /\ pc' = "combine_videos_no_text"
                /\ UNCHANGED <<probes, output_written, raised, returned, success>>
    /\ UNCHANGED <<env_vars, hook_video, demo_video, audio_file, prompted,
                   overlay_text, wrapped_text, font_param, text_file_writes,
                   exit_code>>

\* combine_videos_no_text: the invocation without drawtext
NoText ==
    /\ pc = "combine_videos_no_text"
    /\ \E o \in RunOutcomes :
        /\ invocations' = Append(invocations,
               Invocation("NoTextFallback", FALSE, <<>>, text_file, o))
        /\ IF o.raised
           THEN /\ raised' = raised \cup {"no_text"}
                /\ Return(FALSE)
                /\ UNCHANGED <<probes, output_written>>
           ELSE IF o.returncode = 0
           THEN /\ probes' = probes + 1
                /\ output_written' = TRUE
                /\ Return(TRUE)
                /\ UNCHANGED raised
           ELSE /\ Return(FALSE)
                /\ UNCHANGED <<probes, output_written, raised>>
    /\ UNCHANGED <<env_vars, hook_video, demo_video, audio_file, prompted,
                   overlay_text, wrapped_text, font_param, text_file,
                   text_file_writes, exit_code>>

\* main: sys.exit(0 if success else 1)
MainExit ==
    /\ pc = "run_return"
    /\ exit_code' = ExitStatus(success)
    /\ pc' = "exited"
    /\ UNCHANGED <<env_vars, hook_video, demo_video, audio_file, prompted,
                   overlay_text, wrapped_text, font_param, text_file,
                   text_file_writes, probes, invocations, raised,
                   output_written, returned, success>>

Next ==
    \/ CheckDependencies
    \/ FindHook
    \/ FindDemo
    \/ FindAudio
    \/ CombineStart
    \/ FirstAttempt
    \/ FallbackStart
    \/ FallbackRun
    \/ NoText
    \/ MainExit

Spec == Init /\ [][Next]_vars

(***************************************************************************)
(* The whole run under fairness.  The program is sequential and every call *)
(* it makes returns, so a step that is possible is eventually taken.  The  *)
(* fonts have no part in the course of a run: one font environment is      *)
(* taken per value of the bundled font.                                    *)
(***************************************************************************)
InitFair ==
    /\ ffmpeg_installed \in BOOLEAN
    /\ fs \in [Folders -> RunFolders]
    /\ bundled_font_exists \in BOOLEAN
    /\ platform_system = "Linux"
    /\ existing_fonts = {}
    /\ Start

FairSpec == InitFair /\ [][Next]_vars /\ WF_vars(Next)

(***************************************************************************)
(* File discovery over every listing of the folders                        *)
(***************************************************************************)
InitFind ==
    /\ ffmpeg_installed = TRUE
    /\ \E d \in {Missing} \cup {Folder(l) : l \in Listings} :
          fs = [f \in Folders |-> d]
    /\ bundled_font_exists = TRUE
    /\ platform_system = "Linux"
    /\ existing_fonts = {}
    /\ Start

NextFind ==
    \/ CheckDependencies
    \/ FindHook
    \/ FindDemo
    \/ FindAudio

SpecFind == InitFind /\ [][NextFind]_vars

(***************************************************************************)
(* Text layout over every input line                                       *)
(***************************************************************************)
InitWrap ==
    /\ ffmpeg_installed = TRUE
    /\ fs = [f \in Folders |->
                Folder(<< <<"a">> \o ext_mp4, <<"a">> \o ext_mp3 >>)]
    /\ bundled_font_exists = TRUE
    /\ platform_system = "Linux"
    /\ existing_fonts = {}
    /\ Start

CombineStartWide == CombineStartWith(Texts)

NextWrap ==
    \/ CheckDependencies
    \/ FindHook
    \/ FindDemo
    \/ FindAudio
    \/ CombineStartWide

SpecWrap == InitWrap /\ [][NextWrap]_vars

(***************************************************************************)
(* Properties                                                              *)
(***************************************************************************)
Last(seq) == seq[Len(seq)]

Failed(o) == o.raised \/ o.returncode # 0

\* a non-zero exit code with font or text file diagnostics, as the code reads them
FontFailure(o) ==
    /\ ~o.raised
    /\ o.returncode # 0
    /\ "fontfile" \in o.stderr \/ "textfile" \in o.stderr
    /\ "No such filter" \notin o.stderr

Steps(step) == {i \in 1..Len(invocations) : invocations[i].step = step}

\* C1: once the run has returned or exited, overlay_text.txt does not exist,
\* whatever happened on the way.
C1_NoTextFileAfterRun ==
    pc \in {"run_return", "exited"} => ~text_file.exists

\* the run ended after a first attempt, with overlay text, that failed for a
\* font or text file reason
FontFailureRun ==
    /\ pc = "exited"
    /\ overlay_text # <<>>
    /\ invocations # <<>>
    /\ FontFailure(invocations[1].outcome)

IsRetryWithoutFont(inv) ==
    inv.step = "FontFallback" /\ inv.drawtext /\ inv.fontfile = <<>>

IsNoText(inv) == inv.step = "NoTextFallback" /\ ~inv.drawtext

\* C2, as claimed: after a font-related failure of the first attempt there is
\* exactly one retry whose drawtext filter has no fontfile; if the retry fails
\* in any way there is one invocation without text; and the result of the run
\* is the result of the last invocation.
C2_RetryThenNoTextOnAnyFailure ==
    FontFailureRun =>
        /\ Len(invocations) >= 2
        /\ IsRetryWithoutFont(invocations[2])
        /\ Cardinality(Steps("FontFallback")) = 1
        /\ Failed(invocations[2].outcome) =>
              /\ Len(invocations) = 3
              /\ IsNoText(invocations[3])
        /\ returned
        /\ success = ~Failed(Last(invocations).outcome)

\* C2, amended: after a font-related failure of the first attempt the text
\* file is written again; if that write raises, the run fails with no further
\* invocation; otherwise there is exactly one retry whose drawtext filter has
\* no fontfile.  If the retry exits with a non-zero code there is one
\* invocation without text and the result of the run is its result; if the
\* retry raises, the run fails with no invocation without text; if the retry
\* exits with 0 the run succeeds.
C2_RetryThenNoTextOnExitCode ==
    FontFailureRun =>
        /\ returned
        /\ Cardinality(Steps("FontFallback")) <= 1
        /\ IF "write_fallback" \in raised
           THEN Len(invocations) = 1 /\ ~success
           ELSE /\ Len(invocations) >= 2
                /\ IsRetryWithoutFont(invocations[2])
                /\ IF invocations[2].outcome.raised
                   THEN Len(invocations) = 2 /\ ~success
                   ELSE IF invocations[2].outcome.returncode = 0
                   THEN Len(invocations) = 2 /\ success
                   ELSE /\ Len(invocations) = 3
                        /\ IsNoText(invocations[3])
                        /\ success = ~Failed(invocations[3].outcome)

\* C2, its case: the retry exited with a non-zero code and the invocation
\* without text made the run succeed
C2_Witness ==
    /\ FontFailureRun
    /\ Len(invocations) = 3
    /\ invocations[2].outcome.returncode = 1
    /\ invocations[3].outcome.returncode = 0
    /\ success

NoRecognizedFile(folder, extensions) ==
    \/ ~folder.exists
    \/ \A i \in 1..Len(folder.entries), k \in 1..Len(extensions) :
          ~EndsWith(folder.entries[i], extensions[k])

RunMustAbort ==
    \/ ~ffmpeg_installed
    \/ NoRecognizedFile(fs["hooks"], video_extensions)
    \/ NoRecognizedFile(fs["demo"], video_extensions)
    \/ NoRecognizedFile(fs["audio"], audio_extensions)

\* C3: in a run where ffmpeg is missing, or where one of the three folders is
\* missing or holds no file with a recognized extension, there is never a
\* duration probe, an ffmpeg invocation, a prompt or a text file, and the run
\* ends in failure.
C3_NoToolUseWhenAborted ==
    RunMustAbort =>
        /\ probes = 0
        /\ invocations = <<>>
        /\ ~prompted
        /\ text_file_writes = 0
        /\ ~text_file.exists
        /\ ~output_written
        /\ pc \notin {"combine_videos", "first_attempt", "combine_videos_fallback",
                      "fallback_run", "combine_videos_no_text"}
        /\ pc = "exited" => returned /\ ~success /\ exit_code = 1

\* C3, its case: the tool and the hook video were found, the demo folder had
\* no video, and the run has ended
C3_Witness ==
    /\ pc = "exited"
    /\ ffmpeg_installed
    /\ hook_video \notin {None, Unset}
    /\ demo_video = None
    /\ fs["demo"].exists
    /\ exit_code = 1

LastReturnedZero ==
    /\ invocations # <<>>
    /\ ~Failed(Last(invocations).outcome)

\* C4: the process exits with 0 exactly when run() returned success, which
\* is exactly when the last ffmpeg invocation of the run returned 0 and so
\* wrote the output file; in every other end it exits with 1.
C4_ExitCodeIffSuccess ==
    pc = "exited" =>
        /\ exit_code \in {0, 1}
        /\ exit_code = 0 <=> (returned /\ success)
        /\ exit_code = 0 <=> (LastReturnedZero /\ output_written)

\* C4, its case: a run that succeeded by the invocation without text, and
\* exited with 0
C4_Witness ==
    /\ pc = "exited"
    /\ exit_code = 0
    /\ Len(invocations) = 3
    /\ Last(invocations).step = "NoTextFallback"

\* C5: an exception raised while the text file is written or while ffmpeg is
\* run is caught: run() returns False and the text file is removed.
C5_ExceptionsCaught ==
    (raised # {} /\ pc \in {"run_return", "exited"}) =>
        /\ returned
        /\ ~success
        /\ ~text_file.exists

\* what find_file must return for a folder and a list of extensions: None
\* when nothing is recognized, else the first entry, in the listing's order,
\* of the earliest extension that any entry ends with
FindResultOk(result, folder, extensions) ==
    IF NoRecognizedFile(folder, extensions)
    THEN result = None
    ELSE \E i \in 1..Len(folder.entries), k \in 1..Len(extensions) :
            /\ result = folder.entries[i]
            /\ EndsWith(folder.entries[i], extensions[k])
            /\ \A j \in 1..(i - 1) : ~EndsWith(folder.entries[j], extensions[k])
            /\ \A m \in 1..(k - 1), j \in 1..Len(folder.entries) :
                  ~EndsWith(folder.entries[j], extensions[m])

\* C6: find_file returns None exactly when the folder is missing or holds no
\* entry ending with one of the extensions; otherwise it returns the first
\* entry, in the listing's order, for the earliest extension of the list
\* that has a match.
C6_FindFile ==
    /\ hook_video # Unset => FindResultOk(hook_video, fs["hooks"], video_extensions)
    /\ demo_video # Unset => FindResultOk(demo_video, fs["demo"], video_extensions)
    /\ audio_file # Unset => FindResultOk(audio_file, fs["audio"], audio_extensions)

\* C6, its case: the folder's first entry has a recognized extension, and an
\* entry further down, of an earlier extension, is the one returned
C6_Witness ==
    /\ hook_video \notin {None, Unset}
    /\ audio_file \notin {None, Unset}
    /\ \E k \in 1..Len(video_extensions) :
          EndsWith(fs["hooks"].entries[1], video_extensions[k])
    /\ hook_video # fs["hooks"].entries[1]

\* the maximal runs of a text: of non-whitespace characters, or, with
\* hyphens apart, of hyphens and of characters that are neither
KindOf(c, hyphens_apart) ==
    IF IsWhitespace(c) THEN "space"
    ELSE IF hyphens_apart /\ c = "-" THEN "hyphen"
    ELSE "word"

RECURSIVE Runs(_, _, _, _, _)
Runs(t, i, hyphens_apart, cur, acc) ==
    IF i > Len(t) THEN (IF cur # <<>> THEN Append(acc, cur) ELSE acc)
    ELSE IF KindOf(t[i], hyphens_apart) = "space"
         THEN Runs(t, i + 1, hyphens_apart, <<>>,
                   IF cur # <<>> THEN Append(acc, cur) ELSE acc)
    ELSE IF cur # <<>> /\ KindOf(t[i], hyphens_apart)
                            # KindOf(cur[Len(cur)], hyphens_apart)
         THEN Runs(t, i + 1, hyphens_apart, <<t[i]>>, Append(acc, cur))
    ELSE Runs(t, i + 1, hyphens_apart, Append(cur, t[i]), acc)

Words(t) == Runs(t, 1, FALSE, <<>>, <<>>)
Atoms(t) == Runs(t, 1, TRUE, <<>>, <<>>)

IsLongText == wrapped_text # Unset /\ Len(overlay_text) > chars_per_line
IsShortText == wrapped_text # Unset /\ Len(overlay_text) <= chars_per_line

C8_ShortTextUnchanged ==
    IsShortText => wrapped_text = overlay_text

\* C8, amended: a trimmed text of at most 23 characters whose only whitespace
\* characters are spaces is returned unchanged, character for character, as
\* a single line.
C8_ShortTextOfSpacesUnchanged ==
    (IsShortText /\ \A i \in 1..Len(overlay_text) :
                       IsWhitespace(overlay_text[i]) => overlay_text[i] = " ")
        => wrapped_text = overlay_text

\* C8, its case: a text of exactly 23 characters, two words and a space
C8_Witness ==
    /\ wrapped_text # Unset
    /\ Len(overlay_text) = chars_per_line
    /\ \E i \in 1..Len(overlay_text) : overlay_text[i] = " "
    /\ wrapped_text = overlay_text

StepOrder == <<"TextOverlayAttempt", "FontFallback", "NoTextFallback">>

InvocationOrder ==
    /\ Len(invocations) <= 3
    /\ \A i \in 1..Len(invocations) : invocations[i].step = StepOrder[i]
    /\ Len(invocations) >= 2 =>
          /\ overlay_text # <<>>
          /\ ~invocations[1].outcome.raised
          /\ invocations[1].outcome.returncode # 0
          /\ \/ "fontfile" \in invocations[1].outcome.stderr
             \/ "textfile" \in invocations[1].outcome.stderr
    /\ Len(invocations) >= 3 =>
          /\ ~invocations[2].outcome.raised
          /\ invocations[2].outcome.returncode # 0
    /\ (/\ pc = "exited"
        /\ invocations # <<>>
        /\ \/ overlay_text = <<>>
           \/ (/\ Failed(invocations[1].outcome)
               /\ ~FontFailure(invocations[1].outcome))) =>
          /\ Len(invocations) = 1
          /\ Failed(invocations[1].outcome) => (returned /\ ~success /\ exit_code = 1)

\* C9: the ffmpeg invocations of a run are, in this order and each at most
\* once, the text overlay attempt, the font fallback and the no-text fallback;
\* the font fallback only follows a first attempt with overlay text that
\* returned non-zero with font or text file diagnostics, the no-text fallback
\* only a font fallback that returned non-zero; with empty text or a failure
\* of another kind there is one invocation and its failure ends the run; and
\* every run reaches its end.
C9_InvocationOrderAndEnd == [](InvocationOrder) /\ <>(pc = "exited")

\* C9, its case: a run that made all three invocations and failed
C9_Witness ==
    /\ pc = "exited"
    /\ Len(invocations) = 3
    /\ Failed(invocations[3].outcome)
    /\ exit_code = 1

ExistingOf(paths) == {i \in 1..Len(paths) : paths[i] \in existing_fonts}

\* C10: the fontfile of the first drawtext filter is the bundled font when it
\* exists; otherwise the first existing font of the platform's list; and
\* there is no fontfile only when neither exists.
C10_FontPrecedence ==
    font_param # Unset =>
        LET paths == font_paths(platform_system) IN
        /\ bundled_font_exists => font_param = font_path
        /\ (~bundled_font_exists /\ ExistingOf(paths) # {}) =>
              \E i \in ExistingOf(paths) :
                  /\ font_param = paths[i]
                  /\ \A j \in ExistingOf(paths) : i <= j
        /\ font_param = <<>> <=> (~bundled_font_exists /\ ExistingOf(paths) = {})
        /\ invocations # <<>> => invocations[1].fontfile = font_param

\* C10, its case: no bundled font, two fonts of the platform's list exist,
\* and the first attempt ran with the earlier one
C10_Witness ==
    /\ invocations # <<>>
    /\ invocations[1].drawtext
    /\ ~bundled_font_exists
    /\ Cardinality(ExistingOf(font_paths(platform_system))) = 2
    /\ \E i \in ExistingOf(font_paths(platform_system)) :
          invocations[1].fontfile = font_paths(platform_system)[i]

\* the text file holds the wrapped overlay text
HoldsWrappedText(file) ==
    /\ file.exists
    /\ file.content = wrapped_text
    /\ file.content = wrap_text_for_margins(overlay_text)

\* C11: when an ffmpeg command with a drawtext filter is started (the first
\* attempt with overlay text, and the font fallback, which starts after the
\* first attempt's cleanup removed the file), overlay_text.txt exists and holds
\* the wrapped overlay text; the command without text has no drawtext filter
\* and starts when the text file is already gone.
C11_TextFileAtInvocation ==
    /\ \A i \in 1..Len(invocations) :
          /\ invocations[i].drawtext => HoldsWrappedText(invocations[i].text_file)
          /\ invocations[i].step = "FontFallback" => invocations[i].drawtext
          /\ invocations[i].step = "NoTextFallback" =>
                /\ ~invocations[i].drawtext
                /\ ~invocations[i].text_file.exists
    /\ (pc = "first_attempt" /\ overlay_text # <<>>) => HoldsWrappedText(text_file)
    /\ pc = "combine_videos_fallback" => ~text_file.exists
    /\ pc = "fallback_run" => HoldsWrappedText(text_file)
    /\ pc = "combine_videos_no_text" => ~text_file.exists

\* C11, its case: a run of three commands over a text wrapped onto two lines:
\* both drawtext commands started with the file written, the last without it
C11_Witness ==
    /\ Len(invocations) = 3
    /\ invocations[1].drawtext
    /\ invocations[2].drawtext
    /\ invocations[1].text_file.exists
    /\ invocations[2].text_file = invocations[1].text_file
    /\ \E k \in 1..Len(invocations[2].text_file.content) :
          invocations[2].text_file.content[k] = "\n"
    /\ ~invocations[3].text_file.exists
====
